---------------------------- MODULE Spec2Model ----------------------------
(***************************************************************************)
(* State-machine model of the open-addressing hash table of                *)
(* src/hashmap.h (hashmap_new / get / set / del / grow).                   *)
(*                                                                         *)
(* A table is one record: the header fields of HashMapHeader followed by   *)
(* the three arrays that live in the same allocation (index array, key     *)
(* array, value array).  An index entry is the integer the code obtains    *)
(* by reading the bucket as a size_t and masking it with index_mask.       *)
(* Keys and values are small positive integers; the compare function is    *)
(* equality of keys and the hash function is an arbitrary function from    *)
(* keys to naturals, chosen in Init and passed to every operation as the   *)
(* code passes hash_key.                                                   *)
(*                                                                         *)
(* Float arguments (load factor, grow factor) are given in hundredths.     *)
(* The sizing formulas follow the single-precision arithmetic of the code: *)
(* every float operation is rounded to 24 significant bits, ties to even.  *)
(***************************************************************************)
EXTENDS Integers, Sequences, FiniteSets, TLC

VARIABLES
    map,        \* the caller's handle: the table record *map points at
    hash_key,   \* the hash function bound to the table (Keys -> Nat)
    op,         \* the last operation: name, arguments, result, and what the
                \* caller could observe of the table before it
    lastSet     \* per key: value of the last Set(k,v) if no later Set/Delete targeted k, else 0

vars == <<map, hash_key, op, lastSet>>

(***************************************************************************)
(* Bounds of the model.                                                    *)
(***************************************************************************)
NumKeys == 3
NumValues == 2
MaxHash == 1
MaxInitCapacity == 2
MaxCapacity == 3
MaxGrows == 3

Keys == 1..NumKeys
Values == 1..NumValues
HashValues == 0..MaxHash
LoadFactors == {100}
GrowFactors == {10, 150}

(***************************************************************************)
(* Program constants.                                                      *)
(***************************************************************************)
HASHMAP_DEFAULT_GROW_FACTOR == 150
SIZEOF_HEADER == 48
SIZEOF_CHAR_PTR == 8
SIZEOF_INT == 4
\* contents of memory the table never wrote (malloc does not initialise)
UNINIT == 0 - 1
\* the value a caller observes through a NULL result
ABSENT == 0

(***************************************************************************)
(* Pointers into the value array: NULL or the address of a dense slot.     *)
(***************************************************************************)
NULL == [null |-> TRUE, slot |-> 0]
ValuePtr(slot) == [null |-> FALSE, slot |-> slot]
Deref(t, p) == IF p.null THEN ABSENT ELSE t.values[p.slot]

(***************************************************************************)
(* The allocator (allocator.h): allocate hands out a block that is not in  *)
(* use, deallocate takes one back.  Its state is the set of blocks in use, *)
(* each with the size it was allocated with, and what it was misused for.  *)
(* A block is named by a small number, its address.  in_use holds the      *)
(* blocks a running call has pointers into (the key and value pointers     *)
(* hashmap_grow passes to hashmap_set); use_after_release records that a   *)
(* block was read or written when it was not allocated, or released while  *)
(* a running call still had pointers into it.                              *)
(***************************************************************************)
NO_BLOCK == 0 - 1

\* allocator_system before any allocation
allocator_system ==
    [live |-> {}, fails |-> FALSE, bad_free |-> FALSE, bad_size |-> FALSE,
     in_use |-> {}, use_after_release |-> FALSE]

LiveBlocks(allocator) == {p[1] : p \in allocator.live}

\* allocate(allocator, size): the new block, or NULL when the allocator fails
allocate(allocator, size) ==
    IF allocator.fails THEN [allocator |-> allocator, block |-> NO_BLOCK]
    ELSE LET block == CHOOSE b \in 0..Cardinality(allocator.live) :
                          /\ b \notin LiveBlocks(allocator)
                          /\ \A c \in 0..(b - 1) : c \in LiveBlocks(allocator)
         IN [allocator |-> [allocator EXCEPT !.live = @ \cup {<<block, size>>}],
             block |-> block]

\* deallocate(allocator, memory, old_size)
deallocate(allocator, memory, old_size) ==
    [allocator EXCEPT
        !.live = {p \in @ : p[1] # memory},
        !.bad_free = @ \/ memory \notin LiveBlocks(allocator),
        !.bad_size = @ \/ (memory \in LiveBlocks(allocator)
                            /\ <<memory, old_size>> \notin allocator.live),
        !.use_after_release = @ \/ memory \in allocator.in_use]

\* a read or write of the block, in the table record t that carries the
\* allocator
Use(t, block) ==
    [t EXCEPT !.allocator.use_after_release =
                  @ \/ block \notin LiveBlocks(t.allocator)]
\* pointers into the block are read and handed to a call, and given up when
\* the call has returned
Borrow(t, block) ==
    [t EXCEPT !.allocator.use_after_release =
                  @ \/ block \notin LiveBlocks(t.allocator),
              !.allocator.in_use = @ \cup {block}]
Return(t, block) == [t EXCEPT !.allocator.in_use = @ \ {block}]

\* a NULL handle; the allocator outlives the table
NullHandle(allocator) == [allocator |-> allocator]
IsNull(handle) == DOMAIN handle = {"allocator"}

(***************************************************************************)
(* Layout and sizing.                                                      *)
(***************************************************************************)
RECURSIVE BitLength(_)
BitLength(v) == IF v = 0 THEN 0 ELSE 1 + BitLength(v \div 2)

\* num / den rounded to the nearest integer, ties to the even one
RoundNearestEven(num, den) ==
    LET q == num \div den
        r == num % den
    IN IF 2 * r > den \/ (2 * r = den /\ q % 2 = 1) THEN q + 1 ELSE q

\* the binary exponent e of num / den: 2^e <= num / den < 2^(e+1)
FloatExponent(num, den) ==
    CHOOSE e \in (0 - 8)..7 :
        IF e < 0
        THEN den <= num * 2 ^ (0 - e) /\ num * 2 ^ (0 - e) < 2 * den
        ELSE den * 2 ^ e <= num /\ num < den * 2 ^ (e + 1)

\* the float num / den of two small positive integers held exactly as
\* floats: the value is m * 2^(e - 23) with m the 24-bit significand
FloatDivide(num, den) ==
    LET e == FloatExponent(num, den)
    IN [m |-> RoundNearestEven(num * 2 ^ (23 - e), den), e |-> e]

\* (float)grow_factor / 100.0f + 1.0f, in units of 2^-23: the quotient is
\* rounded, then the sum is rounded to the grid of its binade (2^-23 below
\* 2.0, 2^-22 from 2.0 on)
GrowFactorFloat(grow_factor) ==
    IF grow_factor = 0 THEN 2 ^ 23
    ELSE LET q == FloatDivide(grow_factor, 100)
         IN IF q.e < 0 THEN 2 ^ 23 + RoundNearestEven(q.m, 2 ^ (0 - q.e))
            ELSE IF q.e = 0 THEN 2 ^ 23 + 2 * RoundNearestEven(q.m, 2)
            ELSE 2 ^ 23 + (2 ^ q.e) * q.m

\* 100.0f / (float)load_factor, in units of 2^-23
LoadFactorFloat(load_factor) ==
    LET q == FloatDivide(100, load_factor)
    IN q.m * 2 ^ q.e

\* factor * (float)capacity for a factor of n units of 2^-23, n >= 2^23: the
\* exact product int + frac / 2^23 (computed in two 12-bit limbs of n),
\* rounded to 24 significant bits.  Exact for capacity < 2^17.
FloatTimesCapacity(n, capacity) ==
    LET high  == (n \div 4096) * capacity
        low   == (n % 4096) * capacity
        upper == high + (low \div 4096)
        int   == upper \div 2048
        frac  == (upper % 2048) * 4096 + (low % 4096)
        len   == BitLength(int)
        \* len - 1 fraction bits do not fit in the significand
        grid  == 2 ^ (len - 1)
        kept  == RoundNearestEven(frac, grid) * grid
    IN IF kept = 2 ^ 23 THEN [int |-> int + 1, frac |-> 0]
       ELSE [int |-> int, frac |-> kept]

\* static inline size_t ceil(float x) { return (size_t)x + 1; }
\* the conversion to size_t truncates
ceil(x) == x.int + 1

\* v--; v |= v >> 1; ... ; v++  : every bit below the top bit of v-1 is set,
\* then one is added.
round_up_to_nearest_power_of_2(v) == 2 ^ BitLength(v - 1)

\* hashmap_grow_capacity with the float truncated instead of passed to ceil
hashmap_grow_capacity_NoCeil(capacity, grow_factor) ==
    FloatTimesCapacity(GrowFactorFloat(grow_factor), capacity).int

hashmap_grow_capacity(capacity, grow_factor) ==
    ceil(FloatTimesCapacity(GrowFactorFloat(grow_factor), capacity))

hashmap_index_stride(capacity) ==
    IF capacity < 128 THEN 1
    ELSE IF capacity < 32768 THEN 2
    ELSE IF capacity < 32768 * 65536 THEN 4
    ELSE 8

\* hashmap_index_mask returning the one-byte mask for every capacity
hashmap_index_mask_Byte(capacity) == 255

hashmap_index_mask(capacity) ==
    IF capacity < 128 THEN 255
    ELSE IF capacity < 32768 THEN 65535
    ELSE IF capacity < 32768 * 65536 THEN 65536 * 65536 - 1
    ELSE 65536 * 65536 * 65536 * 65536 - 1

\* hashmap_index_capacity with the float truncated instead of passed to ceil
hashmap_index_capacity_NoCeil(capacity, load_factor) ==
    round_up_to_nearest_power_of_2(
        FloatTimesCapacity(LoadFactorFloat(load_factor), capacity).int)

hashmap_index_capacity(capacity, load_factor) ==
    round_up_to_nearest_power_of_2(
        ceil(FloatTimesCapacity(LoadFactorFloat(load_factor), capacity)))

hashmap_total_size(capacity, index_capacity, index_stride, key_stride, value_stride) ==
    SIZEOF_HEADER + (index_capacity * index_stride)
                  + (capacity * key_stride) + (capacity * value_stride)

\* (u8)(factor * 100.0f) for a float factor given in hundredths.  In IEEE
\* single precision the product falls just below the integer for the
\* hundredths listed (and is exact for the others in 0.01 .. 2.50).
float_to_percent(hundredths) ==
    IF hundredths \in {53, 59, 105, 106, 117, 118, 209, 210, 211, 212,
                       234, 235, 236, 237}
    THEN hundredths - 1 ELSE hundredths

\* hashmap_set_load_factor / hashmap_set_grow_factor; the float argument is
\* given in hundredths
\* hashmap_set_load_factor without the upper bound of its range check
hashmap_set_load_factor_NoUpperBound(t, load_factor) ==
    IF load_factor < 1
    THEN [map |-> t, ret |-> 0]
    ELSE [map |-> [t EXCEPT !.load_factor = float_to_percent(load_factor) % 256],
          ret |-> 1]

\* hashmap_set_load_factor applying the new factor to the index size at once
hashmap_set_load_factor_Resizes(t, load_factor) ==
    IF load_factor < 1 \/ load_factor > 100
    THEN [map |-> t, ret |-> 0]
    ELSE [map |-> [t EXCEPT !.load_factor = float_to_percent(load_factor),
                            !.index_capacity = hashmap_index_capacity(
                                t.capacity, float_to_percent(load_factor))],
          ret |-> 1]

hashmap_set_load_factor(t, load_factor) ==
    IF load_factor < 1 \/ load_factor > 100
    THEN [map |-> t, ret |-> 0]
    ELSE [map |-> [t EXCEPT !.load_factor = float_to_percent(load_factor)],
          ret |-> 1]

hashmap_set_grow_factor(t, grow_factor) ==
    IF grow_factor < 10 \/ grow_factor > 250
    THEN [map |-> t, ret |-> 0]
    ELSE [map |-> [t EXCEPT !.grow_factor = float_to_percent(grow_factor)],
          ret |-> 1]

(***************************************************************************)
(* The table record: header + index array + dense key/value arrays.        *)
(***************************************************************************)
\* FreshTable with the index array cleared to 0 instead of 0xFF
FreshTable_Zeroed(allocator, block, capacity, load, grow, key_stride, value_stride) ==
    LET index_capacity == hashmap_index_capacity(capacity, load)
        index_mask     == hashmap_index_mask(index_capacity)
        index_stride   == hashmap_index_stride(index_capacity)
    IN [ \* the allocator the header refers to, and the block holding the table
         allocator      |-> allocator,
         block          |-> block,
         count          |-> 0,
         capacity       |-> capacity,
         index_capacity |-> index_capacity,
         index_mask     |-> index_mask,
         load_factor    |-> load,
         grow_factor    |-> grow,
         key_stride     |-> key_stride,
         value_stride   |-> value_stride,
         index_stride   |-> index_stride,
         \* memset(header+1, 0, index_capacity * index_stride)
         indices        |-> [i \in 0..(index_capacity - 1) |-> 0],
         keys           |-> [i \in 0..(capacity - 1) |-> UNINIT],
         values         |-> [i \in 0..(capacity - 1) |-> UNINIT] ]

FreshTable(allocator, block, capacity, load, grow, key_stride, value_stride) ==
    LET index_capacity == hashmap_index_capacity(capacity, load)
        index_mask     == hashmap_index_mask(index_capacity)
        index_stride   == hashmap_index_stride(index_capacity)
    IN [ \* the allocator the header refers to, and the block holding the table
         allocator      |-> allocator,
         block          |-> block,
         count          |-> 0,
         capacity       |-> capacity,
         index_capacity |-> index_capacity,
         index_mask     |-> index_mask,
         load_factor    |-> load,
         grow_factor    |-> grow,
         key_stride     |-> key_stride,
         value_stride   |-> value_stride,
         index_stride   |-> index_stride,
         \* memset(header+1, 0xFF, index_capacity * index_stride)
         indices        |-> [i \in 0..(index_capacity - 1) |-> index_mask],
         keys           |-> [i \in 0..(capacity - 1) |-> UNINIT],
         values         |-> [i \in 0..(capacity - 1) |-> UNINIT] ]

hashmap_new_rejects(capacity, load_factor) ==
    load_factor < 1 \/ load_factor > 100 \/ capacity = 0

\* hashmap_new without the test of what allocate returned
hashmap_new_Unchecked(allocator, capacity, load_factor, key_stride, value_stride) ==
    IF hashmap_new_rejects(capacity, load_factor) THEN NullHandle(allocator)
    ELSE LET load == float_to_percent(load_factor)
             index_capacity == hashmap_index_capacity(capacity, load)
             index_stride   == hashmap_index_stride(index_capacity)
             total_size     == hashmap_total_size(capacity, index_capacity,
                                   index_stride, key_stride, value_stride)
             header == allocate(allocator, total_size)
         IN FreshTable(header.allocator, header.block, capacity, load,
                       HASHMAP_DEFAULT_GROW_FACTOR, key_stride, value_stride)

\* hashmap_new; load_factor in hundredths.  The result is the table, or a
\* NULL handle.
hashmap_new(allocator, capacity, load_factor, key_stride, value_stride) ==
    IF hashmap_new_rejects(capacity, load_factor) THEN NullHandle(allocator)
    ELSE LET load == float_to_percent(load_factor)
             index_capacity == hashmap_index_capacity(capacity, load)
             index_stride   == hashmap_index_stride(index_capacity)
             total_size     == hashmap_total_size(capacity, index_capacity,
                                   index_stride, key_stride, value_stride)
             header == allocate(allocator, total_size)
         IN IF header.block = NO_BLOCK THEN NullHandle(allocator)
            ELSE FreshTable(header.allocator, header.block, capacity, load,
                            HASHMAP_DEFAULT_GROW_FACTOR, key_stride, value_stride)

\* hashmap_free: the block goes back to the allocator, *map = NULL
hashmap_free(t) ==
    NullHandle(deallocate(t.allocator, t.block,
                          hashmap_total_size(t.capacity, t.index_capacity,
                              t.index_stride, t.key_stride, t.value_stride)))

hashmap_count(t) == t.count
hashmap_capacity(t) == t.capacity

\* Byte offsets, from the start of the index array, of what the accessors
\* return and of the arrays that get/set/del use.
hashmap_keys(t) == t.index_capacity * hashmap_index_stride(t.capacity)
hashmap_values(t) ==
    t.index_capacity * hashmap_index_stride(t.capacity)
        + t.capacity * SIZEOF_CHAR_PTR
KeysOffset(t) == t.index_capacity * t.index_stride
ValuesOffset(t) == KeysOffset(t) + t.capacity * t.key_stride

\* the size_t read at indices + index * index_stride, masked with index_mask
ReadIndex(t, index) == t.indices[index]
\* memcpy(indices + index * index_stride, &v, index_stride)
WriteIndex(t, index, v) ==
    [t EXCEPT !.indices[index] = v % (t.index_mask + 1)]
\* keys + slot * key_stride, values + slot * value_stride; a slot outside the
\* dense arrays reads memory the table does not own.
KeyAt(t, slot) == IF slot < t.capacity THEN t.keys[slot] ELSE UNINIT
ValueAt(t, slot) == IF slot < t.capacity THEN t.values[slot] ELSE UNINIT
deleted_slot(t) == t.index_mask - 1
\* --counter on a size_t: 0 wraps to 2^64 - 1, written here as -1 (the
\* value 2^64 - n is written -n; it does not reach 0 within the model).
Decrement(counter) == counter - 1

(***************************************************************************)
(* hashmap_get: the do/while probe of lines 280-294.                       *)
(***************************************************************************)
RECURSIVE GetProbe(_, _, _, _, _)
GetProbe(t, key, hash, counter, steps) ==
    LET index == hash % t.index_capacity
        slot  == ReadIndex(t, index)
    IN IF slot >= deleted_slot(t) THEN NULL
       ELSE IF KeyAt(t, slot) = key THEN ValuePtr(slot)
       ELSE IF Decrement(counter) = 0 THEN NULL
       \* a wrapped counter on a ring without a sentinel: 2^64 iterations
       ELSE IF steps >= t.index_capacity THEN NULL
       ELSE GetProbe(t, key, (hash + 1) % t.index_capacity,
                     Decrement(counter), steps + 1)

\* ProbeCounter starting at 0, so that its first decrement wraps
ProbeCounter_Zero(t) == 0

\* ProbeCounter starting at 1 whatever the count
ProbeCounter_One(t) == 1

\* lines 268-269 and 371-372: size_t counter = count
ProbeCounter(t) == t.count

hashmap_get(t, key, hk) == GetProbe(t, key, hk[key], ProbeCounter(t), 0)

\* what the caller reads through the pointer hashmap_get returns
Get(t, key, hk) == Deref(t, hashmap_get(t, key, hk))

(***************************************************************************)
(* hashmap_set and hashmap_grow, which call each other.  A result is       *)
(*   map      the table *map points at when the call returns               *)
(*   ret      1 inserted, 0 updated                                        *)
(*   grows    the number of hashmap_grow invocations the call made         *)
(*   returned FALSE when the call needed more than `fuel` invocations of   *)
(*            hashmap_grow (the model then stops unfolding the recursion)  *)
(***************************************************************************)
\* SetInsert without the memcpy of line 330 that writes the bucket
SetInsert_NoBucket(t, index, key, value) ==
    LET i == t.count
    IN [t EXCEPT !.count = i + 1, !.keys[i] = key, !.values[i] = value]

\* lines 329-333: i = header->count++, then the three memcpy
SetInsert(t, index, key, value) ==
    LET i == t.count
        t1 == [t EXCEPT !.count = i + 1]
        t2 == WriteIndex(t1, index, i)
    IN [t2 EXCEPT !.keys[i] = key, !.values[i] = value]

\* SetUpdate without the memcpy of line 338
SetUpdate_NoWrite(t, slot, value) == t

\* line 338: memcpy(values + slot * value_stride, value, value_stride)
SetUpdate(t, slot, value) == [t EXCEPT !.values[slot] = value]

\* SetFull never reporting a full dense array
SetFull_Never(t) == FALSE

\* line 324: if (count >= capacity)
SetFull(t) == t.count >= t.capacity

SetResult(t, ret) == [map |-> t, ret |-> ret, grows |-> 0, returned |-> TRUE]
OutOfFuel(t) == [map |-> t, ret |-> 0 - 1, grows |-> 0, returned |-> FALSE]

RECURSIVE SetProbe(_, _, _, _, _, _, _)
RECURSIVE GrowAndRetry(_, _, _, _, _)
RECURSIVE Reinsert(_, _, _, _, _, _)
RECURSIVE hashmap_grow(_, _, _)

\* line 301: header = hashmap_header(*map) reads the block *map points at
hashmap_set(t, key, value, hk, fuel) ==
    SetProbe(Use(t, t.block), key, value, hk, hk[key], t.count, fuel)

SetProbe(t, key, value, hk, hash, counter, fuel) ==
    LET index == hash % t.index_capacity
        slot  == ReadIndex(t, index)
    IN IF slot >= deleted_slot(t)
       THEN IF SetFull(t)
            THEN GrowAndRetry(t, key, value, hk, fuel)
            ELSE SetResult(SetInsert(t, index, key, value), 1)
       ELSE IF KeyAt(t, slot) = key
       THEN SetResult(SetUpdate(t, slot, value), 0)
       ELSE IF Decrement(counter) = 0
       THEN GrowAndRetry(t, key, value, hk, fuel)
       ELSE SetProbe(t, key, value, hk, (hash + 1) % t.index_capacity,
                     Decrement(counter), fuel)

\* hashmap_grow(map, ...); return hashmap_set(map, key, value, ...);
GrowAndRetry(t, key, value, hk, fuel) ==
    IF fuel = 0 THEN OutOfFuel(t)
    ELSE LET g == hashmap_grow(t, hk, fuel - 1)
         IN IF ~g.returned THEN g
            ELSE LET s == hashmap_set(g.map, key, value, hk, fuel - 1 - g.grows)
                 IN [s EXCEPT !.grows = s.grows + g.grows + 1]

\* lines 492-496: for i < count, hashmap_set(map, old_keys + i, old_values + i)
Reinsert(old, cur, i, hk, fuel, grows) ==
    IF i >= old.count
    THEN [map |-> cur, ret |-> 0, grows |-> grows, returned |-> TRUE]
    ELSE LET s == hashmap_set(Borrow(cur, old.block),
                              KeyAt(old, i), ValueAt(old, i), hk, fuel)
         IN IF ~s.returned THEN s
            ELSE Reinsert(old, Return(s.map, old.block), i + 1, hk,
                          fuel - s.grows, grows + s.grows)

\* GrowRelease without the deallocate: the old block is never released
GrowRelease_Leak(r, old_block, old_total_size) == r

\* line 498: deallocate(allocator, old_header, old_total_size), at the end of
\* a hashmap_grow whose reinsertion returned r
GrowRelease(r, old_block, old_total_size) ==
    IF ~r.returned THEN r
    ELSE [r EXCEPT !.map.allocator = deallocate(@, old_block, old_total_size)]

\* GrowAllocationFailed releasing the old block before it returns
GrowAllocationFailed_Releases(t, old_total_size) ==
    [map |-> [t EXCEPT !.allocator = deallocate(@, t.block, old_total_size)],
     ret |-> 0, grows |-> 0, returned |-> TRUE]

\* lines 470-471: if (new_header == NULL) return; with *map as it was
GrowAllocationFailed(t, old_total_size) ==
    [map |-> t, ret |-> 0, grows |-> 0, returned |-> TRUE]

\* GrowAllocated releasing the old block before the reinsertion loop
GrowAllocated_ReleaseFirst(t, new_header, new_capacity, old_total_size, hk, fuel) ==
    IF new_header.block = NO_BLOCK
    THEN GrowAllocationFailed(t, old_total_size)
    ELSE Reinsert(t, FreshTable(deallocate(new_header.allocator, t.block,
                                           old_total_size),
                                new_header.block,
                                new_capacity, t.load_factor, t.grow_factor,
                                t.key_stride, t.value_stride),
                  0, hk, fuel, 0)

\* lines 470-498, new_header being what allocate returned: the early return,
\* or the new table installed in *map, filled from the old one, and the old
\* block released
GrowAllocated(t, new_header, new_capacity, old_total_size, hk, fuel) ==
    IF new_header.block = NO_BLOCK
    THEN GrowAllocationFailed(t, old_total_size)
    ELSE GrowRelease(
             Reinsert(t, FreshTable(new_header.allocator, new_header.block,
                                    new_capacity, t.load_factor, t.grow_factor,
                                    t.key_stride, t.value_stride),
                      0, hk, fuel, 0),
             t.block, old_total_size)

\* GrowSized computing old_total_size from an index capacity recomputed
\* with the stored load factor instead of the stored index_capacity
GrowSized_Recomputed(t, new_capacity, new_index_capacity, hk, fuel) ==
    GrowAllocated(t,
        allocate(t.allocator,
                 hashmap_total_size(new_capacity, new_index_capacity,
                     hashmap_index_stride(new_index_capacity),
                     t.key_stride, t.value_stride)),
        new_capacity,
        hashmap_total_size(t.capacity,
                           hashmap_index_capacity(t.capacity, t.load_factor),
                           t.index_stride, t.key_stride, t.value_stride),
        hk, fuel)

\* lines 464-469: new_index_stride, old_total_size, new_total_size, allocate
GrowSized(t, new_capacity, new_index_capacity, hk, fuel) ==
    GrowAllocated(t,
        allocate(t.allocator,
                 hashmap_total_size(new_capacity, new_index_capacity,
                     hashmap_index_stride(new_index_capacity),
                     t.key_stride, t.value_stride)),
        new_capacity,
        hashmap_total_size(t.capacity, t.index_capacity, t.index_stride,
                           t.key_stride, t.value_stride),
        hk, fuel)

\* line 463: new_index_capacity
GrowTo(t, new_capacity, hk, fuel) ==
    GrowSized(t, new_capacity,
              hashmap_index_capacity(new_capacity, t.load_factor), hk, fuel)

\* line 462: new_capacity, from the capacity and grow factor of the header
hashmap_grow(t, hk, fuel) ==
    GrowTo(t, hashmap_grow_capacity(t.capacity, t.grow_factor), hk, fuel)

(***************************************************************************)
(* hashmap_del                                                             *)
(***************************************************************************)
\* ScanForLast running to the end of the index without a match
ScanForLast_Missing(t, i) == t.index_capacity

\* lines 400-409: the first bucket i with (entry & index_mask) = count - 1,
\* or index_capacity when the loop runs to its end
RECURSIVE ScanForLast(_, _)
ScanForLast(t, i) ==
    IF i >= t.index_capacity THEN i
    ELSE IF ReadIndex(t, i) = t.count - 1 THEN i
    ELSE ScanForLast(t, i + 1)

\* DelCompact without the repointing memcpy of line 404
DelCompact_NoRepoint(t, index, slot) ==
    LET last_slot == t.count - 1
        t1 == WriteIndex(t, index, deleted_slot(t))
    IN [t1 EXCEPT !.keys[slot] = KeyAt(t, last_slot),
                  !.values[slot] = ValueAt(t, last_slot)]

\* lines 395-419: slot is not the last live slot
DelCompact(t, index, slot) ==
    LET i == ScanForLast(t, 0)
        found == i < t.index_capacity
        \* last_slot holds the last entry read
        last_slot == IF found THEN t.count - 1
                     ELSE ReadIndex(t, t.index_capacity - 1)
        t1 == IF found
              THEN WriteIndex(WriteIndex(t, i, slot), index, deleted_slot(t))
              ELSE t
    IN [t1 EXCEPT !.keys[slot] = KeyAt(t, last_slot),
                  !.values[slot] = ValueAt(t, last_slot)]

\* DelMarkDeleted writing EMPTY instead of DELETED
DelMarkDeleted_Empty(t, index) == WriteIndex(t, index, t.index_mask)

\* lines 420-423: slot is the last live slot
DelMarkDeleted(t, index) == WriteIndex(t, index, deleted_slot(t))

\* DelFound without the decrement of line 425
DelFound_CountKept(t, index, slot) ==
    LET t1 == IF slot # t.count - 1
              THEN DelCompact(t, index, slot)
              ELSE DelMarkDeleted(t, index)
    IN [map |-> t1, ret |-> ValuePtr(slot)]

\* lines 391-427
DelFound(t, index, slot) ==
    LET t1 == IF slot # t.count - 1
              THEN DelCompact(t, index, slot)
              ELSE DelMarkDeleted(t, index)
    IN [map |-> [t1 EXCEPT !.count = t.count - 1], ret |-> ValuePtr(slot)]

\* DelNotFound marking the bucket the probe ended at as DELETED
DelNotFound_MarksDeleted(t, index) ==
    [map |-> WriteIndex(t, index, deleted_slot(t)), ret |-> NULL]

\* lines 386-388 and 444: return NULL, the probe having ended at bucket index
DelNotFound(t, index) == [map |-> t, ret |-> NULL]

RECURSIVE DelProbe(_, _, _, _, _)
DelProbe(t, key, hash, counter, steps) ==
    LET index == hash % t.index_capacity
        slot  == ReadIndex(t, index)
    IN IF slot >= deleted_slot(t) THEN DelNotFound(t, index)
       ELSE IF KeyAt(t, slot) = key THEN DelFound(t, index, slot)
       ELSE IF Decrement(counter) = 0 THEN DelNotFound(t, index)
       ELSE IF steps >= t.index_capacity THEN DelNotFound(t, index)
       ELSE DelProbe(t, key, (hash + 1) % t.index_capacity,
                     Decrement(counter), steps + 1)

hashmap_del(t, key, hk) == DelProbe(t, key, hk[key], ProbeCounter(t), 0)

(***************************************************************************)
(* The state machine: the StrMap of src/fuzzing.c (keys are const char*,   *)
(* values are int), created by hashmap_new, then any sequence of Set,      *)
(* Delete, Grow and Get calls.                                             *)
(***************************************************************************)
\* what a caller observes of a table through the facade: Count and Get
Observe(t, hk) == [count |-> hashmap_count(t),
                   get   |-> [k \in Keys |-> Get(t, k, hk)]]

\* name, key, value: the call; ret: what it returned (for Delete and Get the
\* value read through the returned pointer, ABSENT for NULL); grows: the
\* hashmap_grow invocations it made; before: what was observable before the
\* call; again: the call is a Set whose key is that of the Set just before it
Operation(name, key, value, ret, grows, before) ==
    [name |-> name, key |-> key, value |-> value, ret |-> ret,
     grows |-> grows, before |-> before,
     again |-> name = "set" /\ op.name = "set" /\ op.key = key]

\* Operations treat keys alike (they only compare them for equality), so
\* every hash function is, up to renaming the keys, a nondecreasing one.
HashFunctions ==
    {h \in [Keys -> HashValues] : \A j, k \in Keys : j <= k => h[j] <= h[k]}

Init ==
    /\ hash_key \in HashFunctions
    /\ \E capacity \in 1..MaxInitCapacity, load_factor \in LoadFactors :
          map = hashmap_new(allocator_system, capacity, load_factor,
                            SIZEOF_CHAR_PTR, SIZEOF_INT)
    /\ op = [name |-> "new", key |-> 0, value |-> 0, ret |-> 0, grows |-> 0,
             before |-> Observe(map, hash_key), again |-> FALSE]
    /\ lastSet = [k \in Keys |-> ABSENT]

\* strmap_set(&map, key, value); the call is taken when it returns and the
\* table it leaves is within the model's capacity bound
SetWithin(key, value, max_capacity) ==
    LET r == hashmap_set(map, key, value, hash_key, MaxGrows)
    IN /\ r.returned
       /\ r.map.capacity <= max_capacity
       /\ map' = r.map
       /\ op' = Operation("set", key, value, r.ret, r.grows, Observe(map, hash_key))
       /\ lastSet' = [lastSet EXCEPT ![key] = value]
       /\ UNCHANGED hash_key

Set(key, value) == SetWithin(key, value, MaxCapacity)

\* strmap_del(&map, key); the caller reads the returned pointer at once
Delete(key) ==
    LET r == hashmap_del(map, key, hash_key)
    IN /\ map' = r.map
       /\ op' = Operation("del", key, 0, Deref(r.map, r.ret), 0, Observe(map, hash_key))
       /\ lastSet' = [lastSet EXCEPT ![key] = ABSENT]
       /\ UNCHANGED hash_key

\* strmap_grow(&map)
GrowWithin(max_capacity) ==
    LET r == hashmap_grow(map, hash_key, MaxGrows - 1)
    IN /\ r.returned
       /\ r.map.capacity <= max_capacity
       /\ map' = r.map
       /\ op' = Operation("grow", 0, 0, 0, r.grows + 1, Observe(map, hash_key))
       /\ UNCHANGED <<hash_key, lastSet>>

Grow == GrowWithin(MaxCapacity)

\* strmap_set_grow_factor(map, factor)
SetGrowFactor(grow_factor) ==
    LET r == hashmap_set_grow_factor(map, grow_factor)
    IN /\ map' = r.map
       /\ op' = Operation("set_grow_factor", 0, grow_factor, r.ret, 0, Observe(map, hash_key))
       /\ UNCHANGED <<hash_key, lastSet>>

\* strmap_set_load_factor(map, factor)
SetLoadFactor(load_factor) ==
    LET r == hashmap_set_load_factor(map, load_factor)
    IN /\ map' = r.map
       /\ op' = Operation("set_load_factor", 0, load_factor, r.ret, 0, Observe(map, hash_key))
       /\ UNCHANGED <<hash_key, lastSet>>

\* strmap_get(map, key)
Lookup(key) ==
    /\ op' = Operation("get", key, 0, Get(map, key, hash_key), 0, Observe(map, hash_key))
    /\ UNCHANGED <<map, hash_key, lastSet>>

Next ==
    \/ \E key \in Keys, value \in Values : Set(key, value)
    \/ \E key \in Keys : Delete(key)
    \/ Grow
    \/ \E grow_factor \in GrowFactors : SetGrowFactor(grow_factor)
    \/ \E key \in Keys : Lookup(key)

Spec == Init /\ [][Next]_vars

(***************************************************************************)
(* Layout: tables of every shape hashmap_new accepts (capacities on both   *)
(* sides of the index-stride thresholds, several load factors and key and  *)
(* value strides), filled by Set and enlarged by Grow.                     *)
(***************************************************************************)
MaxLayoutCapacity == 128
\* <<capacity, load factor in hundredths>>
LayoutShapes == {<<1, 100>>, <<8, 100>>, <<8, 50>>, <<64, 100>>, <<100, 75>>}
LayoutKeyStrides == {1, 4, 8}
LayoutValueStrides == {1, 4}

InitLayout ==
    /\ hash_key \in HashFunctions
    /\ \E shape \in LayoutShapes, key_stride \in LayoutKeyStrides,
          value_stride \in LayoutValueStrides :
          map = hashmap_new(allocator_system, shape[1], shape[2],
                            key_stride, value_stride)
    /\ op = [name |-> "new", key |-> 0, value |-> 0, ret |-> 0, grows |-> 0,
             before |-> Observe(map, hash_key), again |-> FALSE]
    /\ lastSet = [k \in Keys |-> ABSENT]

LayoutSet(key, value) == SetWithin(key, value, MaxLayoutCapacity)
LayoutGrow == GrowWithin(MaxLayoutCapacity)

NextLayout ==
    \/ \E key \in Keys, value \in Values : LayoutSet(key, value)
    \/ LayoutGrow

SpecLayout == InitLayout /\ [][NextLayout]_vars

(***************************************************************************)
(* The scenario of main(): a table created with capacity 8 and load factor *)
(* 1.0, into which nine distinct keys 1..9 are inserted in turn.  op.key   *)
(* is the number of keys inserted, op.grows the Grow invocations so far.   *)
(***************************************************************************)
ScenarioCapacity == 8
ScenarioInserts == ScenarioCapacity + 1
ScenarioKeys == 1..ScenarioInserts
ScenarioHashValues == {0, 4, 8}

InitScenario ==
    /\ hash_key \in [ScenarioKeys -> ScenarioHashValues]
    /\ map = hashmap_new(allocator_system, ScenarioCapacity, 100,
                         SIZEOF_CHAR_PTR, SIZEOF_INT)
    /\ op = [name |-> "new", key |-> 0, value |-> 0, ret |-> 0, grows |-> 0]
    /\ lastSet = [k \in ScenarioKeys |-> ABSENT]

ScenarioInsert ==
    LET key == op.key + 1
        r == hashmap_set(map, key, key, hash_key, MaxGrows)
    IN /\ key \in ScenarioKeys
       /\ r.returned
       /\ map' = r.map
       /\ op' = [name |-> "set", key |-> key, value |-> key, ret |-> r.ret,
                 grows |-> op.grows + r.grows]
       /\ lastSet' = [lastSet EXCEPT ![key] = key]
       /\ UNCHANGED hash_key

NextScenario == ScenarioInsert

SpecScenario == InitScenario /\ [][NextScenario]_vars

(***************************************************************************)
(* Factor tuning: as Spec, with strmap_set_load_factor and                 *)
(* strmap_set_grow_factor called with factors inside and outside their     *)
(* ranges (in hundredths), as main() retunes its table while filling it.   *)
(***************************************************************************)
FactorLoadInputs == {0, 50, 100, 150}
FactorGrowInputs == {0, 10, 150, 300}
FactorKeys == 1..(NumKeys - 1)

NextFactors ==
    \/ \E key \in FactorKeys, value \in Values : Set(key, value)
    \/ \E key \in FactorKeys : Delete(key)
    \/ Grow
    \/ \E load_factor \in FactorLoadInputs : SetLoadFactor(load_factor)
    \/ \E grow_factor \in FactorGrowInputs : SetGrowFactor(grow_factor)

SpecFactors == Init /\ [][NextFactors]_vars

(***************************************************************************)
(* Sizing: tables of every small capacity whose grow factor was set to     *)
(* every accepted value (10 .. 250 hundredths), then grown explicitly and  *)
(* by Sets of two keys with equal hashes.                                  *)
(***************************************************************************)
MaxSizingInitCapacity == 4
MaxSizingCapacity == 16
SizingGrowInputs == 10..250

InitSizing ==
    /\ hash_key = [k \in Keys |-> 0]
    /\ \E capacity \in 1..MaxSizingInitCapacity, grow_factor \in SizingGrowInputs :
          map = hashmap_set_grow_factor(
                    hashmap_new(allocator_system, capacity, 100,
                                SIZEOF_CHAR_PTR, SIZEOF_INT),
                    grow_factor).map
    /\ op = [name |-> "new", key |-> 0, value |-> 0, ret |-> 0, grows |-> 0,
             before |-> Observe(map, hash_key), again |-> FALSE]
    /\ lastSet = [k \in Keys |-> ABSENT]

SizingSet(key) == SetWithin(key, 1, MaxSizingCapacity)
SizingGrow == GrowWithin(MaxSizingCapacity)

NextSizing ==
    \/ \E key \in FactorKeys : SizingSet(key)
    \/ \E key \in FactorKeys : Delete(key)
    \/ SizingGrow

SpecSizing == InitSizing /\ [][NextSizing]_vars

(***************************************************************************)
(* Lifecycle: the handle starts NULL; hashmap_new is called with accepted  *)
(* and rejected arguments, with the allocator serving or refusing the      *)
(* request; the table is filled, emptied and grown (explicitly, by Set,    *)
(* and nested inside the reinsertion of a Grow), Grow is also called while *)
(* the allocator refuses every request, and hashmap_free ends the table.   *)
(***************************************************************************)
MaxLifecycleInitCapacity == 3
MaxLifecycleCapacity == 21
LifecycleLoadInputs == {0, 100, 101}
\* hashes that share a bucket in indices of 4 and 16 buckets but not of 32
LifecycleHashValues == {0, 2, 16}

\* as HashFunctions, with every hash value in use
LifecycleHashFunctions ==
    {h \in [Keys -> LifecycleHashValues] :
        /\ \A j, k \in Keys : j <= k => h[j] <= h[k]
        /\ \A v \in LifecycleHashValues : \E k \in Keys : h[k] = v}

\* the allocator refusing every request while a call runs (malloc returns
\* NULL), and serving requests again afterwards
Failing(handle) == [handle EXCEPT !.allocator.fails = TRUE]
Recovered(handle) == [handle EXCEPT !.allocator.fails = FALSE]

\* what is observable through a NULL handle: nothing
NoTable == [count |-> 0, get |-> [k \in Keys |-> ABSENT]]

InitLifecycle ==
    /\ hash_key \in LifecycleHashFunctions
    /\ map = NullHandle(allocator_system)
    /\ op = [name |-> "none", key |-> 0, value |-> 0, ret |-> 0, grows |-> 0,
             before |-> NoTable, again |-> FALSE]
    /\ lastSet = [k \in Keys |-> ABSENT]

\* map = strmap_new_with_load_factor(allocator, capacity, load_factor);
\* op.ret is 1 when the handle returned is not NULL
NewWith(handle, name, capacity, load_factor) ==
    LET t == Recovered(hashmap_new(handle.allocator, capacity, load_factor,
                                   SIZEOF_CHAR_PTR, SIZEOF_INT))
    IN /\ IsNull(map)
       /\ map' = t
       /\ op' = [name |-> name, key |-> capacity, value |-> load_factor,
                 ret |-> IF IsNull(t) THEN 0 ELSE 1, grows |-> 0,
                 before |-> NoTable, again |-> FALSE]
       /\ UNCHANGED <<hash_key, lastSet>>

New(capacity, load_factor) == NewWith(map, "new", capacity, load_factor)
NewFails(capacity, load_factor) ==
    NewWith(Failing(map), "new_fails", capacity, load_factor)

\* strmap_free(&map)
Free ==
    /\ ~IsNull(map)
    /\ map' = hashmap_free(map)
    /\ op' = Operation("free", 0, 0, 0, 0, Observe(map, hash_key))
    /\ lastSet' = [k \in Keys |-> ABSENT]
    /\ UNCHANGED hash_key

\* strmap_grow(&map) while the allocator refuses every request
GrowFails ==
    /\ ~IsNull(map)
    /\ LET r == hashmap_grow(Failing(map), hash_key, MaxGrows - 1)
       IN /\ r.returned
          /\ map' = Recovered(r.map)
          /\ op' = Operation("grow_fails", 0, 0, 0, r.grows,
                              Observe(map, hash_key))
    /\ UNCHANGED <<hash_key, lastSet>>

LifecycleSet(key) == ~IsNull(map) /\ SetWithin(key, 1, MaxLifecycleCapacity)
LifecycleDelete(key) == ~IsNull(map) /\ Delete(key)
LifecycleGrow == ~IsNull(map) /\ GrowWithin(MaxLifecycleCapacity)

NextLifecycle ==
    \/ \E capacity \in 0..MaxLifecycleInitCapacity,
          load_factor \in LifecycleLoadInputs : New(capacity, load_factor)
    \/ \E capacity \in 0..MaxLifecycleInitCapacity,
          load_factor \in LifecycleLoadInputs : NewFails(capacity, load_factor)
    \/ \E key \in Keys : LifecycleSet(key)
    \/ \E key \in Keys : LifecycleDelete(key)
    \/ LifecycleGrow
    \/ GrowFails
    \/ Free

SpecLifecycle == InitLifecycle /\ [][NextLifecycle]_vars

(***************************************************************************)
(* Properties.                                                             *)
(***************************************************************************)
EMPTY(t) == t.index_mask
Live(t) == 0..(t.count - 1)
Buckets(t) == 0..(t.index_capacity - 1)
DeletedPresentKey == op.name = "del" /\ op.before.get[op.key] # ABSENT

\* C1: once Set(k,v) has returned, Get(k) returns v after every later
\* operation (Set or Delete of another key, Grow) that does not target k.
C1_SetValueIsKept ==
    \A k \in Keys : lastSet[k] # ABSENT => Get(map, k, hash_key) = lastSet[k]

\* C2: Delete(k) of a present key returns the value that was associated with
\* k when Delete was called.
C2_DeleteReturnsRemovedValue ==
    DeletedPresentKey => op.ret = op.before.get[op.key]

\* C3: after Delete(k) of a present key, Get(j) of every other key j returns
\* what it returned immediately before the Delete.
C3_DeleteKeepsOtherLookups ==
    DeletedPresentKey =>
        \A j \in Keys \ {op.key} : Get(map, j, hash_key) = op.before.get[j]

\* C4: no two live dense slots hold equal keys.
C4_NoDuplicateKeys ==
    \A i, j \in Live(map) : i # j => map.keys[i] # map.keys[j]

\* C5: every Set call returns after finitely many Grow invocations (here:
\* within MaxGrows of them), for every reachable table and every key.
C5_SetReturns ==
    \A k \in Keys, v \in Values :
        hashmap_set(map, k, v, hash_key, MaxGrows).returned

\* C6: Set(k,v1) immediately followed by Set(k,v2): the second Set reports
\* updated, Count is as after the first Set, and Get(k) returns v2.
C6_SetTwice ==
    (op.name = "set" /\ op.again) =>
        /\ op.ret = 0
        /\ hashmap_count(map) = op.before.count
        /\ Get(map, op.key, hash_key) = op.value

C6_Witness ==
    /\ op.name = "set" /\ op.again
    /\ op.before.get[op.key] # op.value
    /\ \E b \in Buckets(map) : map.indices[b] = deleted_slot(map)

\* C7: if Get(k) is present, Delete(k) finds k, Count decreases by exactly
\* one and Get(k) is absent immediately afterwards.
C7_DeletePresent ==
    DeletedPresentKey =>
        /\ op.ret # ABSENT
        /\ hashmap_count(map) = op.before.count - 1
        /\ Get(map, op.key, hash_key) = ABSENT

C7_Witness ==
    /\ DeletedPresentKey
    /\ op.before.count >= 2
    /\ \E j \in Keys \ {op.key} : op.before.get[j] # ABSENT

\* C8: every index bucket holds EMPTY, DELETED or a dense-slot number in
\* [0,count), and every dense slot in [0,count) is referenced by exactly one
\* bucket.
C8_IndexMatchesDense ==
    /\ \A b \in Buckets(map) :
          \/ map.indices[b] = EMPTY(map)
          \/ map.indices[b] = deleted_slot(map)
          \/ map.indices[b] \in Live(map)
    /\ \A s \in Live(map) :
          Cardinality({b \in Buckets(map) : map.indices[b] = s}) = 1

C8_Witness ==
    /\ op.name = "del" /\ op.ret # ABSENT
    /\ hashmap_count(map) >= 2
    /\ \E b \in Buckets(map) : map.indices[b] = deleted_slot(map)
    /\ \E b \in Buckets(map) : map.indices[b] = EMPTY(map)

\* C9: Keys() returns the start of the key array that Set/Get/Delete use
\* (offset index_capacity * index_stride) and Values() the start of the value
\* array they use (key array start + capacity * key_stride).
C9_AccessorsMatchLayout ==
    /\ hashmap_keys(map) = KeysOffset(map)
    /\ hashmap_values(map) = ValuesOffset(map)

\* C10: created with capacity 8 and load factor 1.0, the insertion of nine
\* distinct keys completes whatever their hash values (each Set returns),
\* invokes Grow at least once and ends with Capacity > 8 and Count = 9.
C10_NineInsertsComplete ==
    /\ op.key < ScenarioInserts =>
          hashmap_set(map, op.key + 1, op.key + 1, hash_key, MaxGrows).returned
    /\ op.key = ScenarioInserts =>
          /\ op.grows >= 1
          /\ hashmap_capacity(map) > ScenarioCapacity
          /\ hashmap_count(map) = ScenarioInserts

\* C11: on a table whose load factor is 1.0, a Set made while Count < Capacity
\* invokes no Grow (and so returns without one).
C11_NoGrowBelowCapacity ==
    (map.load_factor = 100 /\ hashmap_count(map) < hashmap_capacity(map)) =>
        \A k \in Keys, v \in Values :
            LET r == hashmap_set(map, k, v, hash_key, MaxGrows)
            IN r.returned /\ r.grows = 0

\* C12: in every reachable state, also after accepted SetLoadFactor calls,
\* index_capacity is a power of two and index_capacity * load_factor >
\* capacity * 100 for the load factor (percent) the table stores.
C12_IndexCapacitySized ==
    /\ map.index_capacity = 2 ^ (BitLength(map.index_capacity) - 1)
    /\ map.index_capacity * map.load_factor > map.capacity * 100

\* C12, amended: index_capacity is always a power of two; the table New
\* creates and every table a Grow creates has index_capacity * load_factor >
\* capacity * 100 for the load factor stored at that moment, and every
\* operation but an accepted SetLoadFactor keeps the inequality.
C12_SizedAtNewAndGrow ==
    /\ map.index_capacity * map.load_factor > map.capacity * 100
    /\ [](map.index_capacity = 2 ^ (BitLength(map.index_capacity) - 1))
    /\ [][map'.capacity # map.capacity =>
             map'.index_capacity * map'.load_factor > map'.capacity * 100]_vars
    /\ [][(op'.name # "set_load_factor"
             /\ map.index_capacity * map.load_factor > map.capacity * 100) =>
             map'.index_capacity * map'.load_factor > map'.capacity * 100]_vars

\* a Set that grew a table whose load factor had been lowered to 0.5 after
\* it was created
C12_Witness ==
    /\ op.name = "set" /\ op.grows >= 1
    /\ map.load_factor = 50
    /\ map.index_capacity * map.load_factor > map.capacity * 100

C14_FactorsApplyAtNextGrow ==
    \A load_factor \in FactorLoadInputs, grow_factor \in FactorGrowInputs :
        LET l == hashmap_set_load_factor(map, load_factor)
            g == hashmap_set_grow_factor(l.map, grow_factor)
            t == g.map
            retuned(u) == [u EXCEPT !.load_factor = t.load_factor,
                                    !.grow_factor = t.grow_factor]
            grown == hashmap_grow(t, hash_key, MaxGrows - 1)
        IN (l.ret = 1 /\ g.ret = 1) =>
            /\ t = retuned(map)
            /\ l.map = [map EXCEPT !.load_factor = t.load_factor]
            /\ Observe(t, hash_key) = Observe(map, hash_key)
            /\ \A k \in Keys :
                  LET d == hashmap_del(map, k, hash_key)
                  IN hashmap_del(t, k, hash_key) =
                         [map |-> retuned(d.map), ret |-> d.ret]
            /\ \A k \in Keys, v \in Values :
                  LET s == hashmap_set(map, k, v, hash_key, MaxGrows)
                  IN (s.returned /\ s.grows = 0) =>
                        hashmap_set(t, k, v, hash_key, MaxGrows) =
                            [s EXCEPT !.map = retuned(s.map)]
            /\ (grown.returned /\ grown.grows = 0) =>
                  /\ grown.map.capacity =
                         hashmap_grow_capacity(map.capacity, t.grow_factor)
                  /\ grown.map.index_capacity =
                         hashmap_index_capacity(grown.map.capacity, t.load_factor)
                  /\ grown.map.load_factor = t.load_factor
                  /\ grown.map.grow_factor = t.grow_factor

\* a Grow, after SetLoadFactor(0.5) and SetGrowFactor(0.1) were accepted on a
\* table created with load factor 1.0 and the default grow factor, that sized
\* the new table with the new factors
C14_Witness ==
    /\ op.name = "grow" /\ op.grows = 1
    /\ hashmap_count(map) >= 1
    /\ map.load_factor = 50 /\ map.grow_factor = 10
    /\ map.index_capacity = hashmap_index_capacity(map.capacity, 50)
    /\ map.index_capacity # hashmap_index_capacity(map.capacity, 100)

\* C15: across every operation Capacity never decreases, and every Grow
\* whose allocation succeeds (invoked explicitly or by a Set) leaves Capacity
\* strictly greater than before, for every stored grow factor of 10 .. 250
\* percent and every capacity from 1 on.
C15_CapacityNeverShrinks ==
    [][/\ map'.capacity >= map.capacity
       /\ op'.grows >= 1 => map'.capacity > map.capacity]_vars

\* a Grow with grow factor 0.1 of a table of capacity 1: 1.1 truncates to 1
C15_Witness ==
    /\ op.name = "grow" /\ op.grows = 1
    /\ map.grow_factor = 10
    /\ hashmap_capacity(map) = 2
    /\ hashmap_count(map) = 1

\* C16: when the allocator fails inside an explicitly invoked Grow, Grow
\* returns with the handle, count, capacity, factors, index and dense arrays
\* unchanged, every Get result unchanged, and no block allocated or released.
C16_GrowFailureIsNoOp ==
    ~IsNull(map) =>
        LET r == hashmap_grow(Failing(map), hash_key, MaxGrows - 1)
        IN /\ r.returned /\ r.grows = 0
           /\ r.map = Failing(map)
           /\ Observe(r.map, hash_key) = Observe(map, hash_key)
           /\ r.map.allocator.live = map.allocator.live
           /\ ~r.map.allocator.bad_free

\* a Grow refused by the allocator on a table that holds two entries and a
\* DELETED bucket and was grown before
C16_Witness ==
    /\ op.name = "grow_fails"
    /\ ~IsNull(map)
    /\ hashmap_count(map) = 2
    /\ hashmap_capacity(map) > MaxLifecycleInitCapacity
    /\ \E b \in Buckets(map) : map.indices[b] = deleted_slot(map)

C18_OneBlockOwned ==
    /\ IF IsNull(map) THEN LiveBlocks(map.allocator) = {}
       ELSE LiveBlocks(map.allocator) = {map.block}
    /\ op.name = "free" => IsNull(map)
    /\ ~map.allocator.bad_free

\* an explicit Grow completed with a Grow nested in its reinsertion
C18_Witness ==
    /\ op.name = "grow" /\ op.grows >= 2
    /\ ~IsNull(map)
    /\ hashmap_count(map) >= 2
    /\ LiveBlocks(map.allocator) = {map.block}

\* C19: Get never changes the table; Delete(k) for a key k held by no live
\* dense slot returns absent and leaves count, capacity, the index array and
\* the dense key and value arrays (the whole table) unchanged.
C19_MissChangesNothing ==
    [][/\ op'.name = "get" => map' = map
       /\ (op'.name = "del" /\ \A s \in Live(map) : map.keys[s] # op'.key) =>
             (op'.ret = ABSENT /\ map' = map)]_vars

\* a Delete of a key that is not stored, on a table that holds another key
\* and a DELETED bucket
C19_Witness ==
    /\ op.name = "del" /\ op.ret = ABSENT
    /\ \A s \in Live(map) : map.keys[s] # op.key
    /\ hashmap_count(map) >= 1
    /\ \E b \in Buckets(map) : map.indices[b] = deleted_slot(map)
    /\ hash_key[op.key] = hash_key[map.keys[0]]

\* The bucket kind at which the probe of hashmap_get (lines 280-294) returns:
\* "found", "empty", "deleted", or "bound" when the counter runs out.
RECURSIVE GetProbeEnd(_, _, _, _, _)
GetProbeEnd(t, key, hash, counter, steps) ==
    LET index == hash % t.index_capacity
        slot  == ReadIndex(t, index)
    IN IF slot >= deleted_slot(t)
       THEN IF slot = EMPTY(t) THEN "empty" ELSE "deleted"
       ELSE IF KeyAt(t, slot) = key THEN "found"
       ELSE IF Decrement(counter) = 0 THEN "bound"
       ELSE IF steps >= t.index_capacity THEN "bound"
       ELSE GetProbeEnd(t, key, (hash + 1) % t.index_capacity,
                        Decrement(counter), steps + 1)

\* the same for the probe of hashmap_del (lines 382-444)
RECURSIVE DelProbeEnd(_, _, _, _, _)
DelProbeEnd(t, key, hash, counter, steps) ==
    LET index == hash % t.index_capacity
        slot  == ReadIndex(t, index)
    IN IF slot >= deleted_slot(t)
       THEN IF slot = EMPTY(t) THEN "empty" ELSE "deleted"
       ELSE IF KeyAt(t, slot) = key THEN "found"
       ELSE IF Decrement(counter) = 0 THEN "bound"
       ELSE IF steps >= t.index_capacity THEN "bound"
       ELSE DelProbeEnd(t, key, (hash + 1) % t.index_capacity,
                        Decrement(counter), steps + 1)

\* C20: in Get and in Delete a DELETED bucket does not end the probe: the
\* probe ends only at the key, at an EMPTY bucket or with the probe bound
\* exhausted, for every key and every reachable table.
C20_DeletedIsTransparent ==
    \A k \in Keys :
        /\ GetProbeEnd(map, k, hash_key[k], map.count, 0) # "deleted"
        /\ DelProbeEnd(map, k, hash_key[k], map.count, 0) # "deleted"

\* the bucket d steps after the home bucket of key
ProbeBucket(t, hk, key, d) == (hk[key] + d) % t.index_capacity

\* the probe distances at which the walk from the home bucket of the key in
\* live dense slot s meets a bucket that maps to s, no EMPTY bucket before it
ChainTo(t, hk, s) ==
    {d \in Buckets(t) :
        /\ t.indices[ProbeBucket(t, hk, t.keys[s], d)] = s
        /\ \A i \in 0..(d - 1) :
              t.indices[ProbeBucket(t, hk, t.keys[s], i)] # EMPTY(t)}

\* C21: for every key stored in a live dense slot s, walking the index from
\* bucket hash(key) & (index_capacity - 1) with step +1 and wraparound
\* reaches a bucket that maps to s before reaching any EMPTY bucket.
C21_ProbeChainIntact ==
    \A s \in Live(map) : ChainTo(map, hash_key, s) # {}

\* a live key whose chain runs through a DELETED bucket left by a Delete
C21_Witness ==
    /\ hashmap_count(map) >= 2
    /\ \E s \in Live(map) : \E d \in ChainTo(map, hash_key, s) :
          \E i \in 0..(d - 1) :
              map.indices[ProbeBucket(map, hash_key, map.keys[s], i)]
                  = deleted_slot(map)

\* C22: a Grow whose allocation succeeds leaves Count unchanged and leaves
\* Get(k) unchanged for every key k, whatever tombstones the old table
\* contained.
C22_GrowKeepsContents ==
    op.name = "grow" =>
        /\ hashmap_count(map) = op.before.count
        /\ \A k \in Keys : Get(map, k, hash_key) = op.before.get[k]

\* C23: Grow computes new_capacity = ceil(capacity * (100 + grow_factor) / 100)
\* for every capacity >= 1 and grow factor in 10..250 percent, also where the
\* product is an exact integer.  Checked for the capacity and the stored grow
\* factor of every reachable table: the capacity the next Grow computes is
\* the least integer n with 100 * n >= capacity * (100 + grow_factor).
C23_GrowCapacityIsCeiling ==
    LET new_capacity == hashmap_grow_capacity(map.capacity, map.grow_factor)
        product == map.capacity * (100 + map.grow_factor)
    IN /\ 100 * new_capacity >= product
       /\ 100 * (new_capacity - 1) < product

\* C24: New and Grow compute index_capacity as the smallest power of two
\* >= ceil(100 * capacity / load_factor), for every capacity >= 1 and load
\* factor in 1..100 percent, also where 100 * capacity / load_factor is an
\* exact integer.  Checked for the capacity and the stored load factor of
\* every reachable table: what New and Grow compute for them is a power of
\* two n with n * load_factor >= 100 * capacity, and n / 2 is not.
C24_IndexCapacityIsLeastPowerOfTwo ==
    LET n == hashmap_index_capacity(map.capacity, map.load_factor)
    IN /\ n = 2 ^ (BitLength(n) - 1)
       /\ n * map.load_factor >= 100 * map.capacity
       /\ n > 1 => (n \div 2) * map.load_factor < 100 * map.capacity

\* C25: for every Set call that returns, calls that grow the table included,
\* the result is inserted (1) exactly when Count after the call is Count
\* before plus one, and updated (0) exactly when Count is unchanged.
C25_SetResultMatchesCount ==
    op.name = "set" =>
        /\ op.ret \in {0, 1}
        /\ op.ret = 1 <=> hashmap_count(map) = op.before.count + 1
        /\ op.ret = 0 <=> hashmap_count(map) = op.before.count

(***************************************************************************)
(* C26: a Set that inserts without growing writes exactly one index        *)
(* bucket, one that held EMPTY or DELETED, with the old Count, writes the   *)
(* key and the value at dense slot old Count and increments Count; every    *)
(* other bucket and the dense slots below old Count are unchanged.  A Set   *)
(* that updates changes only the value at the matched dense slot.           *)
(***************************************************************************)
C26_SetFrame ==
    [][op'.name = "set" /\ op'.grows = 0 =>
          /\ op'.ret = 1 =>
                \E b \in Buckets(map) :
                    /\ map.indices[b] >= deleted_slot(map)
                    /\ map.count < map.capacity
                    /\ map' = [map EXCEPT !.count = map.count + 1,
                                          !.indices[b] = map.count,
                                          !.keys[map.count] = op'.key,
                                          !.values[map.count] = op'.value]
          /\ op'.ret = 0 =>
                \E s \in Live(map) :
                    /\ map.keys[s] = op'.key
                    /\ map' = [map EXCEPT !.values[s] = op'.value]
          /\ op'.ret \in {0, 1}]_vars

\* a Set has inserted without growing into a table that holds a DELETED
\* bucket and another entry
C26_Witness ==
    /\ op.name = "set" /\ op.grows = 0 /\ op.ret = 1
    /\ op.before.count >= 1
    /\ \E b \in Buckets(map) : map.indices[b] = deleted_slot(map)

(***************************************************************************)
(* C27: when Delete removes dense slot s with s # count - 1, some bucket   *)
(* maps to count - 1 (the scan of the index finds it); afterwards that      *)
(* bucket maps to s, slot s holds the key and the value that were at slot   *)
(* count - 1, the bucket of the removed key is DELETED, and every other     *)
(* bucket and dense slot is unchanged.                                      *)
(***************************************************************************)
C27_DeleteCompacts ==
    [][op'.name = "del" =>
          LET found == hashmap_del(map, op'.key, hash_key).ret
              s     == found.slot
              last  == map.count - 1
          IN (~found.null /\ s # last) =>
                \E b, l \in Buckets(map) :
                    /\ map.indices[b] = s
                    /\ map.keys[s] = op'.key
                    /\ map.indices[l] = last
                    /\ map' = [map EXCEPT !.count = last,
                                          !.indices[l] = s,
                                          !.indices[b] = deleted_slot(map),
                                          !.keys[s] = map.keys[last],
                                          !.values[s] = map.values[last]]]_vars

\* a Delete has removed an entry that was not the last one: the entry that
\* was last is now at a lower slot and its old slot, just above the live
\* ones, still holds its key
C27_Witness ==
    /\ op.name = "del"
    /\ op.before.count = hashmap_count(map) + 1
    /\ hashmap_count(map) >= 2
    /\ map.keys[map.count] # op.key
    /\ \E s \in Live(map), l \in Buckets(map) :
          /\ map.keys[s] = map.keys[map.count]
          /\ map.indices[l] = s
    /\ \E b \in Buckets(map) : map.indices[b] = deleted_slot(map)

(***************************************************************************)
(* Memory accesses.  An access is a range of bytes [lo, hi) counted from   *)
(* the address *map holds, the start of the index array; the header lies   *)
(* SIZEOF_HEADER bytes before it and the block ends total_size bytes after *)
(* the start of the header.                                                *)
(***************************************************************************)
SIZEOF_SIZE_T == 8

Access(lo, size) == [lo |-> lo, hi |-> lo + size]

\* the size_t read through indices + index * index_stride
IndexRead(t, index) == Access(index * t.index_stride, SIZEOF_SIZE_T)
\* memcpy(indices + index * index_stride, ..., index_stride)
IndexWrite(t, index) == Access(index * t.index_stride, t.index_stride)
\* keys + slot * key_stride, key_stride bytes
KeyAccess(t, slot) == Access(KeysOffset(t) + slot * t.key_stride, t.key_stride)
\* values + slot * value_stride, value_stride bytes
ValueAccess(t, slot) ==
    Access(ValuesOffset(t) + slot * t.value_stride, t.value_stride)

\* The probe loop shared by hashmap_get, hashmap_set and hashmap_del: the
\* accesses it makes, the bucket it ends at and how it ends ("free": an
\* EMPTY or DELETED bucket, "found": the key, "bound": the counter ran out).
RECURSIVE ProbeTrace(_, _, _, _, _)
ProbeTrace(t, key, hash, counter, steps) ==
    LET index == hash % t.index_capacity
        slot  == ReadIndex(t, index)
    IN IF slot >= deleted_slot(t)
       THEN [accesses |-> {IndexRead(t, index)}, index |-> index, end |-> "free"]
       ELSE IF KeyAt(t, slot) = key
       THEN [accesses |-> {IndexRead(t, index), KeyAccess(t, slot)},
             index |-> index, end |-> "found"]
       ELSE IF Decrement(counter) = 0 \/ steps >= t.index_capacity
       THEN [accesses |-> {IndexRead(t, index), KeyAccess(t, slot)},
             index |-> index, end |-> "bound"]
       ELSE LET rest == ProbeTrace(t, key, (hash + 1) % t.index_capacity,
                                   Decrement(counter), steps + 1)
            IN [rest EXCEPT !.accesses =
                   @ \cup {IndexRead(t, index), KeyAccess(t, slot)}]

\* hashmap_get: the probe (the caller, not Get, reads the value)
GetAccesses(t, key, hk) == ProbeTrace(t, key, hk[key], t.count, 0).accesses

\* hashmap_set on the table it is called with: the probe, then the three
\* memcpy of an insertion or the one of an update; a Set that grows goes on
\* in the table hashmap_grow builds
SetAccesses(t, key, hk) ==
    LET p == ProbeTrace(t, key, hk[key], t.count, 0)
    IN p.accesses \cup
       (IF p.end = "free" /\ t.count < t.capacity
        THEN {IndexWrite(t, p.index), KeyAccess(t, t.count),
              ValueAccess(t, t.count)}
        ELSE IF p.end = "found"
        THEN {ValueAccess(t, ReadIndex(t, p.index))}
        ELSE {})

\* hashmap_del: the probe, then for a key that is found the scan for the
\* bucket of the last slot with the two bucket writes and the two copies, or
\* the one bucket write
DelAccesses(t, key, hk) ==
    LET p == ProbeTrace(t, key, hk[key], t.count, 0)
        slot == ReadIndex(t, p.index)
        i == ScanForLast(t, 0)
        scanned == IF i < t.index_capacity THEN 0..i
                   ELSE 0..(t.index_capacity - 1)
        last_slot == IF i < t.index_capacity THEN t.count - 1
                     ELSE ReadIndex(t, t.index_capacity - 1)
    IN p.accesses \cup
       (IF p.end # "found" THEN {}
        ELSE IF slot # t.count - 1
        THEN {IndexRead(t, b) : b \in scanned}
             \cup (IF i < t.index_capacity
                   THEN {IndexWrite(t, i), IndexWrite(t, p.index)} ELSE {})
             \cup {KeyAccess(t, slot), KeyAccess(t, last_slot),
                   ValueAccess(t, slot), ValueAccess(t, last_slot)}
        ELSE {IndexWrite(t, p.index)})

\* the access lies in the block allocate returned for the table
InBlock(t, a) ==
    /\ a.lo >= 0 - SIZEOF_HEADER
    /\ a.hi <= hashmap_total_size(t.capacity, t.index_capacity, t.index_stride,
                                  t.key_stride, t.value_stride) - SIZEOF_HEADER

(***************************************************************************)
(* C28: every memory access Get, Set and Delete make on a table stays      *)
(* inside the table's own allocation, for every capacity >= 1 and all key   *)
(* and value strides >= 1, the 8-byte read of the last index bucket         *)
(* included.                                                                *)
(***************************************************************************)
C28_AccessesInsideBlock ==
    \A key \in Keys :
        \A a \in GetAccesses(map, key, hash_key)
                    \cup SetAccesses(map, key, hash_key)
                    \cup DelAccesses(map, key, hash_key) :
            InBlock(map, a)

(***************************************************************************)
(* C29: no operation reads or writes a block after it has been released:   *)
(* during Grow, a Grow nested in the reinsertion loop of another Grow       *)
(* included, the keys, values and header of the old block are read only     *)
(* before that block is deallocated, and when Set has returned the caller's *)
(* handle points at a block that is still allocated.                        *)
(***************************************************************************)
C29_NoUseAfterRelease ==
    /\ ~map.allocator.use_after_release
    /\ ~IsNull(map) => map.block \in LiveBlocks(map.allocator)

\* an explicit Grow completed with a Grow nested in its reinsertion loop,
\* which ran while the outer Grow held pointers into its old block
C29_Witness ==
    /\ op.name = "grow" /\ op.grows >= 2
    /\ ~IsNull(map)
    /\ map.block \in LiveBlocks(map.allocator)
    /\ map.allocator.in_use = {}
    /\ ~map.allocator.use_after_release

(***************************************************************************)
(* C30: every reachable table has at least one EMPTY index bucket, so a    *)
(* probe that stops only at EMPTY ends within index_capacity steps.         *)
(***************************************************************************)
C30_SomeBucketEmpty ==
    \E b \in Buckets(map) : map.indices[b] = EMPTY(map)

(***************************************************************************)
(* C31: whenever Get or Delete gives up because the probe counter ran out  *)
(* (not because it read an EMPTY or DELETED bucket), the key is held by no  *)
(* live dense slot: the counter bound alone gives no false negative.        *)
(***************************************************************************)
C31_BoundIsNoFalseNegative ==
    \A key \in Keys :
        (\/ GetProbeEnd(map, key, hash_key[key], ProbeCounter(map), 0) = "bound"
         \/ DelProbeEnd(map, key, hash_key[key], ProbeCounter(map), 0) = "bound")
            => \A s \in Live(map) : map.keys[s] # key

\* a Get has given up on the counter after passing two occupied buckets, in a
\* table that holds two entries
C31_Witness ==
    /\ op.name = "get" /\ op.ret = ABSENT
    /\ hashmap_count(map) >= 2
    /\ GetProbeEnd(map, op.key, hash_key[op.key], ProbeCounter(map), 0) = "bound"

(***************************************************************************)
(* The number of index buckets a call examines.                            *)
(***************************************************************************)
\* the probe of hashmap_get and hashmap_del: the buckets read until it
\* returns (more than index_capacity stands for a counter that wrapped)
RECURSIVE ProbeLength(_, _, _, _, _)
ProbeLength(t, key, hash, counter, steps) ==
    LET index == hash % t.index_capacity
        slot  == ReadIndex(t, index)
    IN IF slot >= deleted_slot(t) THEN steps + 1
       ELSE IF KeyAt(t, slot) = key THEN steps + 1
       ELSE IF Decrement(counter) = 0 THEN steps + 1
       ELSE IF steps >= t.index_capacity THEN steps + 1
       ELSE ProbeLength(t, key, (hash + 1) % t.index_capacity,
                        Decrement(counter), steps + 1)

GetExamined(t, key, hk) == ProbeLength(t, key, hk[key], ProbeCounter(t), 0)
DelProbeExamined(t, key, hk) ==
    ProbeLength(t, key, hk[key], ProbeCounter(t), 0)

\* lines 400-409 of hashmap_del: the buckets the scan for the last slot
\* reads, when the key is found at a slot that is not the last
DelScanExamined(t, key, hk) ==
    LET found == hashmap_del(t, key, hk).ret
        i == ScanForLast(t, 0)
    IN IF found.null \/ found.slot = t.count - 1 THEN 0
       ELSE IF i < t.index_capacity THEN i + 1
       ELSE t.index_capacity

DelExamined(t, key, hk) ==
    DelProbeExamined(t, key, hk) + DelScanExamined(t, key, hk)

ProbeBound(t) == IF t.count >= 1 THEN t.count ELSE 1

(***************************************************************************)
(* C32: in every reachable state Get and Delete return after examining at  *)
(* most max(count, 1) index buckets, also on a table with count = 0, where  *)
(* the decrement of the probe counter wraps around.                         *)
(***************************************************************************)
C32_ExamineAtMostCount ==
    \A key \in Keys :
        /\ GetExamined(map, key, hash_key) <= ProbeBound(map)
        /\ DelExamined(map, key, hash_key) <= ProbeBound(map)

\* C32 as it holds: Get examines at most max(count, 1) index buckets and so
\* does the probe of Delete, also on a table with count = 0; the scan of
\* Delete for the bucket of the last slot examines at most index_capacity
\* buckets more.
C32_ProbeExaminesAtMostCount ==
    \A key \in Keys :
        /\ GetExamined(map, key, hash_key) <= ProbeBound(map)
        /\ DelProbeExamined(map, key, hash_key) <= ProbeBound(map)
        /\ DelScanExamined(map, key, hash_key) <= map.index_capacity

\* a Get was made on a table with count = 0 whose home bucket for the key is
\* DELETED: it examined one bucket
C32_Witness ==
    /\ op.name = "get"
    /\ hashmap_count(map) = 0
    /\ map.indices[hash_key[op.key] % map.index_capacity] = deleted_slot(map)
    /\ GetExamined(map, op.key, hash_key) = 1
    /\ DelExamined(map, op.key, hash_key) = 1

(***************************************************************************)
(* C33: for every table New or Grow produces, every dense-slot number that *)
(* can be written to the index (0 .. capacity - 1) is below index_mask - 1  *)
(* and fits in index_stride bytes, so that a stored dense-slot number is    *)
(* never read back as EMPTY or DELETED.  Stated for the table of the state  *)
(* and for the sizes hashmap_new and hashmap_grow compute for capacities on *)
(* both sides of the first threshold of the index stride.                   *)
(***************************************************************************)
\* the capacities and load factors (percent) whose index has one-byte or
\* two-byte entries
ThresholdShapes ==
    {shape \in {1, 63, 64, 127, 128, 254, 255, 256, 8192, 16383} \X {1, 50, 100} :
        100 * shape[1] < 16384 * shape[2]}

\* lines 219-221 and 463-465: the mask and stride of a table of this capacity
SlotNumbersFit(capacity, index_mask, index_stride) ==
    /\ capacity - 1 < index_mask - 1
    /\ capacity - 1 < 256 ^ index_stride
    /\ index_mask < 256 ^ index_stride

C33_SlotNumbersFit ==
    /\ SlotNumbersFit(map.capacity, map.index_mask, map.index_stride)
    /\ \A s \in {0, map.capacity - 1} :
          /\ ReadIndex(WriteIndex(map, 0, s), 0) = s
          /\ ReadIndex(WriteIndex(map, 0, s), 0) < deleted_slot(map)
    /\ \A shape \in ThresholdShapes :
          SlotNumbersFit(shape[1],
              hashmap_index_mask(hashmap_index_capacity(shape[1], shape[2])),
              hashmap_index_stride(hashmap_index_capacity(shape[1], shape[2])))

\* a Grow has produced a table with two-byte index entries from one with
\* one-byte entries, and the table holds entries
C33_Witness ==
    /\ op.name \in {"set", "grow"} /\ op.grows >= 1
    /\ map.index_stride = 2 /\ map.index_mask = 65535
    /\ map.capacity < 128
    /\ hashmap_count(map) >= 1
    /\ \E b \in Buckets(map) : map.indices[b] = hashmap_count(map) - 1

(***************************************************************************)
(* C34: in every reachable state 0 <= count <= capacity: Set never stores  *)
(* an entry at a dense slot >= capacity and Delete never decrements count   *)
(* below 0.                                                                 *)
(***************************************************************************)
C34_CountWithinCapacity ==
    /\ 0 <= map.count /\ map.count <= map.capacity
    /\ \A s \in Live(map) : s \in DOMAIN map.keys /\ map.keys[s] \in Keys
    /\ \A b \in Buckets(map) :
          map.indices[b] < deleted_slot(map) => map.indices[b] < map.capacity

\* a Set has inserted the entry that fills the dense arrays
C34_Witness ==
    /\ op.name = "set" /\ op.ret = 1
    /\ map.count = map.capacity
    /\ map.capacity >= 2

\* lines 462-489 of hashmap_grow: the table new_header holds when *map is
\* set to it, before the reinsertion loop
GrowFreshTable(t) ==
    LET new_capacity == hashmap_grow_capacity(t.capacity, t.grow_factor)
        new_index_capacity == hashmap_index_capacity(new_capacity, t.load_factor)
        new_header ==
            allocate(t.allocator,
                     hashmap_total_size(new_capacity, new_index_capacity,
                         hashmap_index_stride(new_index_capacity),
                         t.key_stride, t.value_stride))
    IN FreshTable(new_header.allocator, new_header.block, new_capacity,
                  t.load_factor, t.grow_factor, t.key_stride, t.value_stride)

\* no entry, the capacity asked for, every bucket EMPTY, every Get absent
IsFresh(t, capacity, hk) ==
    /\ hashmap_count(t) = 0
    /\ hashmap_capacity(t) = capacity
    /\ \A b \in Buckets(t) : ReadIndex(t, b) = EMPTY(t)
    /\ \A key \in Keys : Get(t, key, hk) = ABSENT

(***************************************************************************)
(* C35: immediately after a successful New, count = 0, capacity is the     *)
(* requested capacity, every index bucket reads as EMPTY and Get of every   *)
(* key is absent; the fresh table Grow creates is in the same state before  *)
(* the reinsertion starts.                                                  *)
(***************************************************************************)
C35_NewTableIsEmpty ==
    /\ (op.name \in {"new", "new_fails"} /\ ~IsNull(map))
          => IsFresh(map, op.key, hash_key)
    /\ ~IsNull(map)
          => IsFresh(GrowFreshTable(map),
                     hashmap_grow_capacity(map.capacity, map.grow_factor),
                     hash_key)

\* a New has succeeded with the largest capacity of the model
C35_Witness ==
    /\ op.name = "new" /\ op.ret = 1
    /\ ~IsNull(map)
    /\ op.key = MaxLifecycleInitCapacity
    /\ IsFresh(map, MaxLifecycleInitCapacity, hash_key)

\* the size hashmap_free (line 254) and hashmap_grow (line 467) compute for
\* the block of the table
StoredTotalSize(t) ==
    hashmap_total_size(t.capacity, t.index_capacity, t.index_stride,
                       t.key_stride, t.value_stride)

(***************************************************************************)
(* C36: every deallocate call of Free and Grow passes the byte size that   *)
(* was passed to the allocate call that created the block, for every        *)
(* reachable table, also after SetLoadFactor and SetGrowFactor changed the  *)
(* stored factors.                                                          *)
(***************************************************************************)
C36_DeallocateSizeMatches ==
    /\ ~map.allocator.bad_size
    /\ <<map.block, StoredTotalSize(map)>> \in map.allocator.live
    /\ ~hashmap_free(map).allocator.bad_size

\* a Grow has released the block of a table whose load factor and grow
\* factor had been changed
C36_Witness ==
    /\ op.name = "grow"
    /\ map.load_factor # 100
    /\ map.grow_factor # HASHMAP_DEFAULT_GROW_FACTOR
    /\ hashmap_count(map) >= 1
    /\ map.allocator.live = {<<map.block, StoredTotalSize(map)>>}

(***************************************************************************)
(* The default string comparison, compare_string.  A C string is the       *)
(* sequence of its characters; reading it at its length gives the          *)
(* terminating NUL.  The comparison is applied to the prefixes of one word  *)
(* and to the strings that differ from a prefix in one character.           *)
(***************************************************************************)
NUL == "NUL"
CharAt(str, i) == IF i < Len(str) THEN str[i + 1] ELSE NUL

Word == <<"a", "b", "c", "d", "e", "f">>
Strings ==
    LET prefixes == {SubSeq(Word, 1, n) : n \in 0..Len(Word)}
        variants ==
            {[pn[1] EXCEPT ![pn[2]] = "x"] :
                pn \in {qn \in prefixes \X (1..Len(Word)) : qn[2] <= Len(qn[1])}}
    IN  prefixes \cup variants

\* the loop of a comparison that stops only at the end of str_a
RECURSIVE compare_string_FirstLengthFrom(_, _, _)
compare_string_FirstLengthFrom(str_a, str_b, i) ==
    IF CharAt(str_a, i) # NUL
    THEN IF CharAt(str_a, i) # CharAt(str_b, i) THEN 1
         ELSE compare_string_FirstLengthFrom(str_a, str_b, i + 1)
    ELSE 0

\* compare_string comparing up to the length of its first argument
compare_string_FirstLength(key, candidate) == compare_string_FirstLengthFrom(key, candidate, 0)

\* lines 517-521: for (i = 0; str_a[i] != 0 && str_b[i] != 0; ++i)
\*                    if (str_a[i] != str_b[i]) return 1;
\*                return 0;
RECURSIVE CompareFrom(_, _, _)
CompareFrom(str_a, str_b, i) ==
    IF CharAt(str_a, i) # NUL /\ CharAt(str_b, i) # NUL
    THEN IF CharAt(str_a, i) # CharAt(str_b, i) THEN 1
         ELSE CompareFrom(str_a, str_b, i + 1)
    ELSE 0

\* compare_string(key, candidate, stride): 0 for equal, 1 for different
compare_string(key, candidate) == CompareFrom(key, candidate, 0)

InitStrings ==
    /\ map = NullHandle(allocator_system)
    /\ hash_key = [k \in Keys |-> 0]
    /\ op = [name |-> "none", key |-> <<>>, value |-> <<>>, ret |-> 0,
             grows |-> 0, before |-> NoTable, again |-> FALSE]
    /\ lastSet = [k \in Keys |-> ABSENT]

\* compare_string(&key, &candidate, stride), as hashmap_get calls it
Compare(key, candidate) ==
    /\ op' = [name |-> "compare", key |-> key, value |-> candidate,
              ret |-> compare_string(key, candidate),
              grows |-> 0, before |-> NoTable, again |-> FALSE]
    /\ UNCHANGED <<map, hash_key, lastSet>>

NextStrings == \E key \in Strings, candidate \in Strings : Compare(key, candidate)

SpecStrings == InitStrings /\ [][NextStrings]_vars

C37_IsPrefix(a, b) == Len(a) <= Len(b) /\ SubSeq(b, 1, Len(a)) = a

(***************************************************************************)
(* C37: the default string equality compares only up to the length of its  *)
(* first argument: compare_string(a, b) reports equal exactly when a is a   *)
(* prefix of b, so ("abc", "abcdef") compares equal and ("abcdef", "abc")   *)
(* compares unequal.                                                        *)
(***************************************************************************)
C37_EqualIffPrefixOfSecond ==
    op.name = "compare" =>
        /\ op.ret = 0 <=> C37_IsPrefix(op.key, op.value)
        /\ (op.key = Word /\ op.value = SubSeq(Word, 1, 3)) => op.ret = 1

\* C37 as it holds: compare_string compares only up to the length of the
\* shorter argument: it reports equal exactly when one argument is a prefix
\* of the other, so ("abc", "abcdef") and ("abcdef", "abc") both compare
\* equal.
C37_EqualIffEitherIsPrefix ==
    op.name = "compare" =>
        /\ op.ret \in {0, 1}
        /\ op.ret = 0 <=> (C37_IsPrefix(op.key, op.value) \/ C37_IsPrefix(op.value, op.key))
        /\ (op.key = SubSeq(Word, 1, 3) /\ op.value = Word) => op.ret = 0
        /\ (op.key = Word /\ op.value = SubSeq(Word, 1, 3)) => op.ret = 0

\* compare_string("abcdef", "abc") has returned 0
C37_Witness ==
    /\ op.name = "compare"
    /\ op.key = Word /\ op.value = SubSeq(Word, 1, 3)
    /\ op.ret = 0

(***************************************************************************)
(* Threads: two threads each call hashmap_set once on the same table, with *)
(* no lock.  A step of a thread is one read or one write of shared memory   *)
(* (the count of the header, an index bucket, a dense slot).  op holds the  *)
(* two calls: for each thread its position in hashmap_set and its locals.   *)
(* A step whose behaviour the language leaves undefined (a write past the   *)
(* dense arrays, a comparison with a key slot nobody wrote, a hashmap_grow  *)
(* that releases the block the other call is working on) ends the run in a  *)
(* state marked undefined: nothing is assumed about what follows.           *)
(***************************************************************************)
MaxThreadCapacity == 8
Threads == 1..2
\* the other thread is between the entry and the return of its call
OtherInFlight(n) == op.threads[3 - n].pc \notin {"idle", "done"}

InitThreads ==
    /\ hash_key \in HashFunctions
    /\ \E capacity \in 1..MaxInitCapacity :
          map = hashmap_new(allocator_system, capacity, 100,
                            SIZEOF_CHAR_PTR, SIZEOF_INT)
    /\ \E keys \in [Threads -> 1..2] :
          op = [name |-> "threads",
                threads |-> [n \in Threads |->
                                [pc |-> "idle", key |-> keys[n], value |-> n,
                                 count |-> 0, counter |-> 0, hash |-> 0,
                                 index |-> 0, slot |-> 0, i |-> 0, ret |-> 0]],
                overlapped |-> FALSE,
                undefined |-> FALSE]
    /\ lastSet = [k \in Keys |-> ABSENT]

\* the thread moves on with its locals changed, shared memory untouched
ThreadLocal(n, th) ==
    /\ op' = [op EXCEPT !.threads[n] = th]
    /\ UNCHANGED <<map, hash_key, lastSet>>

\* the thread writes shared memory
ThreadShared(n, th, t) ==
    /\ op' = [op EXCEPT !.threads[n] = th]
    /\ map' = t
    /\ UNCHANGED <<hash_key, lastSet>>

ThreadUndefined ==
    /\ op' = [op EXCEPT !.undefined = TRUE]
    /\ UNCHANGED <<map, hash_key, lastSet>>

\* lines 301-319: the header is read into locals (count, counter = count),
\* the key is hashed
ThreadEnter(n) ==
    LET th == op.threads[n]
    IN /\ ~op.undefined /\ th.pc = "idle"
       /\ op' = [op EXCEPT
                    !.threads[n] = [th EXCEPT !.pc = "probe",
                                              !.count = map.count,
                                              !.counter = map.count,
                                              !.hash = hash_key[th.key]],
                    !.overlapped = @ \/ OtherInFlight(n)]
       /\ UNCHANGED <<map, hash_key, lastSet>>

\* lines 320-324: the bucket is read; an EMPTY or DELETED one is taken, or
\* the table is found full
ThreadProbe(n) ==
    LET th == op.threads[n]
        index == th.hash % map.index_capacity
        slot == ReadIndex(map, index)
    IN /\ ~op.undefined /\ th.pc = "probe"
       /\ ThreadLocal(n, [th EXCEPT
              !.index = index, !.slot = slot,
              !.pc = IF slot >= deleted_slot(map)
                     THEN IF th.count >= map.capacity THEN "grow"
                          ELSE "read_count"
                     ELSE "compare"])

\* lines 336-337, 342, 356: the key of the slot is read and compared
ThreadCompare(n) ==
    LET th == op.threads[n]
        existing_key == KeyAt(map, th.slot)
    IN /\ ~op.undefined /\ th.pc = "compare"
       /\ IF existing_key = UNINIT THEN ThreadUndefined
          ELSE ThreadLocal(n,
                  IF existing_key = th.key THEN [th EXCEPT !.pc = "update"]
                  ELSE [th EXCEPT
                           !.hash = (th.hash + 1) % map.index_capacity,
                           !.counter = Decrement(th.counter),
                           !.pc = IF Decrement(th.counter) = 0 THEN "grow"
                                  ELSE "probe"])

\* line 329, i = header->count++: the read
ThreadReadCount(n) ==
    LET th == op.threads[n]
    IN /\ ~op.undefined /\ th.pc = "read_count"
       /\ ThreadLocal(n, [th EXCEPT !.i = map.count, !.pc = "write_count"])

\* line 329, i = header->count++: the write
ThreadWriteCount(n) ==
    LET th == op.threads[n]
    IN /\ ~op.undefined /\ th.pc = "write_count"
       /\ ThreadShared(n, [th EXCEPT !.pc = "write_index"],
                       [map EXCEPT !.count = th.i + 1])

\* ThreadWriteIndex without the memcpy into the bucket
ThreadWriteIndex_Skipped(n) ==
    LET th == op.threads[n]
    IN /\ ~op.undefined /\ th.pc = "write_index"
       /\ ThreadLocal(n, [th EXCEPT !.pc = "write_key"])

\* line 330: memcpy(indices + index * index_stride, &i, index_stride)
ThreadWriteIndex(n) ==
    LET th == op.threads[n]
    IN /\ ~op.undefined /\ th.pc = "write_index"
       /\ ThreadShared(n, [th EXCEPT !.pc = "write_key"],
                       WriteIndex(map, th.index, th.i))

\* line 331: memcpy(keys + i * key_stride, key, key_stride)
ThreadWriteKey(n) ==
    LET th == op.threads[n]
    IN /\ ~op.undefined /\ th.pc = "write_key"
       /\ IF th.i >= map.capacity THEN ThreadUndefined
          ELSE ThreadShared(n, [th EXCEPT !.pc = "write_value"],
                            [map EXCEPT !.keys[th.i] = th.key])

\* lines 332-333: memcpy(values + i * value_stride, ...); return 1
ThreadWriteValue(n) ==
    LET th == op.threads[n]
    IN /\ ~op.undefined /\ th.pc = "write_value"
       /\ ThreadShared(n, [th EXCEPT !.pc = "done", !.ret = 1],
                       [map EXCEPT !.values[th.i] = th.value])

\* lines 338-339: memcpy(values + slot * value_stride, ...); return 0
ThreadUpdate(n) ==
    LET th == op.threads[n]
    IN /\ ~op.undefined /\ th.pc = "update"
       /\ ThreadShared(n, [th EXCEPT !.pc = "done", !.ret = 0],
                       SetUpdate(map, th.slot, th.value))

\* lines 325-326 and 358-359: hashmap_grow(map, ...), then hashmap_set again.
\* The grow releases the block; the other call, if it is under way, goes on
\* reading and writing that block.  The step is taken when the table it
\* leaves is within the capacity bound of the model.
ThreadGrow(n) ==
    LET th == op.threads[n]
        r == hashmap_grow(map, hash_key, MaxGrows - 1)
    IN /\ ~op.undefined /\ th.pc = "grow"
       /\ IF OtherInFlight(n) THEN ThreadUndefined
          ELSE /\ r.returned
               /\ r.map.capacity <= MaxThreadCapacity
               /\ ThreadShared(n, [th EXCEPT !.pc = "idle"], r.map)

NextThreads ==
    \E n \in Threads :
        \/ ThreadEnter(n)
        \/ ThreadProbe(n)
        \/ ThreadCompare(n)
        \/ ThreadReadCount(n)
        \/ ThreadWriteCount(n)
        \/ ThreadWriteIndex(n)
        \/ ThreadWriteKey(n)
        \/ ThreadWriteValue(n)
        \/ ThreadUpdate(n)
        \/ ThreadGrow(n)

SpecThreads == InitThreads /\ [][NextThreads]_vars

\* both calls have returned, and they were made for distinct keys
C38_BothReturned ==
    /\ \A n \in Threads : op.threads[n].pc = "done"
    /\ op.threads[1].key # op.threads[2].key

\* the density invariant: every dense slot below count is referenced by
\* exactly one bucket, and Get finds every key a call inserted
C38_Density ==
    /\ \A s \in Live(map) :
          Cardinality({b \in Buckets(map) : map.indices[b] = s}) = 1
    /\ \A n \in Threads :
          op.threads[n].ret = 1 =>
              Get(map, op.threads[n].key, hash_key) = op.threads[n].value

(***************************************************************************)
(* C38: two Set calls for distinct keys, run by two threads on the same     *)
(* table without serialization and interleaved at the level of single       *)
(* reads and writes of count, index buckets and dense slots, can reach a     *)
(* state that violates the density invariant (a dense slot below count       *)
(* referenced by no bucket or by two, or an inserted key Get cannot find).   *)
(* C38_Witness is such a state; the invariant says that only interleaving    *)
(* produces it: when the two calls have returned and density is violated,    *)
(* one call started while the other was under way.                           *)
(***************************************************************************)
C38_OnlyInterleavingBreaksDensity ==
    (C38_BothReturned /\ ~C38_Density) => op.overlapped

\* both calls have returned "inserted" and the table violates density
C38_Witness ==
    /\ C38_BothReturned
    /\ \A n \in Threads : op.threads[n].ret = 1
    /\ op.overlapped /\ ~op.undefined
    /\ ~C38_Density

=============================================================================
